---- MODULE Spec2Model ----
(***************************************************************************)
(* Model of the SEO evaluation engine (src/seo_pipeline/evaluation.py).    *)
(*                                                                         *)
(* Text is modelled character by character: a Python str is a sequence of  *)
(* one-character strings, so strip(), lower(), splitlines(), the regular   *)
(* expressions and the substring tests are computed on characters and not  *)
(* assumed.  Python floats are modelled by exact rationals: every float    *)
(* the evaluator forms is a quotient of small integers, kept here as a     *)
(* numerator over a denominator.  A float differs from the exact quotient  *)
(* by its binary rounding error, far too small to matter except where the  *)
(* exact quotient sits on a step of int() or on a tie of round(); there    *)
(* the sign of the error decides, and fperr is that sign.                  *)
(***************************************************************************)
EXTENDS Integers, Sequences, FiniteSets, TLC

VARIABLES
    content,          \* SEOContent: [title, body, summary, meta_description]
    keywords,         \* List[str] argument of evaluate_seo_content
    primary_keyword,  \* Optional[str] argument: None or Some(str)
    fperr,            \* sign of the binary rounding error of the floats
    pc,               \* "call" | "returned" | "raised" | "failed" | "idle"
    result,           \* the SEOEvaluation returned, NoResult before/without
    error,            \* message of the exception that ended the call, or ""
    sr_value,         \* _score_range arguments (in common integer units)
    sr_low,
    sr_high,
    sr_pc,            \* "call" | "returned" | "raised" | "idle"
    sr_out,           \* value returned by _score_range
    sr_prev,          \* <<>> or <<[value, out]>>: the preceding call
    args,             \* the caller's argument objects, passed by reference
    th_pc,            \* per thread: position inside evaluate_seo_content
    th_in,            \* per thread: which of args its call was given
    th_frame,         \* per thread: the locals of its call (the scores)
    th_notes,         \* the notes lists allocated by the calls
    started,          \* number of calls made so far
    done,             \* the calls that ended, in the order they ended
    p_steps,          \* the "steps" array of commands.json
    p_index,          \* index of the step the loop of run_pipeline is at
    p_pc,             \* "idle" | "loop" | "handler" | "completed" |
                      \* "failed" | "returned" | "exited"
    p_data,           \* PipelineState.data: each key None or Some(value)
    p_prev,           \* p_data as it was when the last handler was called
    p_client,         \* PipelineState._client is not None
    p_files,          \* the paths written to
    p_printed,        \* the completion message was printed
    p_exit,           \* exit status of main, -1 before it ends
    p_error,          \* the exception that ended the run
    p_attempts,       \* per step: how many times its handler was called
    p_fellback,       \* the steps that printed the fallback message
    p_used            \* the keywords the last handler passed on, or None

evalVars == <<content, keywords, primary_keyword, fperr, pc, result, error>>
rangeVars == <<sr_value, sr_low, sr_high, sr_pc, sr_out, sr_prev>>
threadVars == <<args, th_pc, th_in, th_frame, th_notes, started, done>>
pipeVars == <<p_steps, p_index, p_pc, p_data, p_prev, p_client, p_files,
              p_printed, p_exit, p_error, p_attempts, p_fellback, p_used>>
vars == <<content, keywords, primary_keyword, fperr, pc, result, error,
          sr_value, sr_low, sr_high, sr_pc, sr_out, sr_prev,
          args, th_pc, th_in, th_frame, th_notes, started, done,
          p_steps, p_index, p_pc, p_data, p_prev, p_client, p_files,
          p_printed, p_exit, p_error, p_attempts, p_fellback, p_used>>

(***************************************************************************)
(* Bounds of the model.                                                    *)
(***************************************************************************)
RangeNeg == 3      \* the _score_range grid is -RangeNeg..RangeMax
RangeMax == 6
MaxKeywords == 2   \* longest keywords list passed to the evaluator
MaxThreads == 2    \* threads calling the evaluator at the same time
MaxCalls == 3      \* calls the threads make between them
MaxSteps == 4      \* steps in commands.json
MaxH2 == 4         \* most "## " lines in a generated body

(***************************************************************************)
(* Characters.                                                             *)
(***************************************************************************)
LowerLetters == {"a", "b", "e", "i", "o", "s", "t", "u", "y"}
UpperLetters == {"A", "B", "E", "O", "S", "T"}
Digits == {"1"}
\* \w of Python's re for str patterns: letters, digits and the underscore
WordChars == LowerLetters \cup UpperLetters \cup Digits \cup {"_"}
\* the character class [\w'-]
TokenChars == WordChars \cup {"'", "-"}
\* what str.strip() removes
Whitespace == {" ", "\n", "\t"}
SentenceDelims == {".", "!", "?"}
Vowels == {"a", "e", "i", "o", "u", "y"}
Char == TokenChars \cup Whitespace \cup SentenceDelims \cup {"#", ","}

\* str.lower() on one character
LowerChar(c) ==
    CASE c = "A" -> "a"
      [] c = "B" -> "b"
      [] c = "E" -> "e"
      [] c = "O" -> "o"
      [] c = "S" -> "s"
      [] c = "T" -> "t"
      [] OTHER -> c

\* str.lower() (SubSeq turns the function into a sequence value)
Lower(s) == SubSeq([i \in 1..Len(s) |-> LowerChar(s[i])], 1, Len(s))

SetMin(S) == CHOOSE x \in S : \A y \in S : x <= y
SetMax(S) == CHOOSE x \in S : \A y \in S : y <= x

\* str.strip(): drop leading and trailing whitespace
Strip(s) ==
    LET n == Len(s)
    IN  IF \A i \in 1..n : s[i] \in Whitespace THEN <<>>
        ELSE LET lead == CHOOSE k \in 0..(n - 1) :
                             /\ s[k + 1] \notin Whitespace
                             /\ \A j \in 1..k : s[j] \in Whitespace
                 trail == CHOOSE k \in 0..(n - 1) :
                              /\ s[n - k] \notin Whitespace
                              /\ \A j \in 0..(k - 1) : s[n - j] \in Whitespace
             IN  SubSeq(s, lead + 1, n - trail)

\* needle in hay (substring containment)
Contains(hay, needle) ==
    \E i \in 0..(Len(hay) - Len(needle)) :
        SubSeq(hay, i + 1, i + Len(needle)) = needle

\* str.startswith
StartsWith(s, prefix) ==
    Len(s) >= Len(prefix) /\ SubSeq(s, 1, Len(prefix)) = prefix

\* s repeated n times
Rep(s, n) == [i \in 1..(n * Len(s)) |-> s[((i - 1) % Len(s)) + 1]]

(***************************************************************************)
(* The maximal runs of characters of class cls in s[lo..hi], left to       *)
(* right, each as <<first, last>>.  Splitting on a separator class is the  *)
(* runs of its complement.                                                 *)
(***************************************************************************)
RECURSIVE RunsOf(_, _, _, _)
RunsOf(s, cls, lo, hi) ==
    IF lo > hi THEN <<>>
    ELSE IF lo = hi THEN (IF s[lo] \in cls THEN << <<lo, lo>> >> ELSE <<>>)
    ELSE LET mid == (lo + hi) \div 2
             L == RunsOf(s, cls, lo, mid)
             R == RunsOf(s, cls, mid + 1, hi)
         IN  IF L # <<>> /\ R # <<>> /\ L[Len(L)][2] = mid /\ R[1][1] = mid + 1
             THEN SubSeq(L, 1, Len(L) - 1)
                      \o << <<L[Len(L)][1], R[1][2]>> >> \o Tail(R)
             ELSE L \o R

Runs(s, cls) == RunsOf(s, cls, 1, Len(s))

\* sum of seq[lo..hi]
RECURSIVE SumOf(_, _, _)
SumOf(seq, lo, hi) ==
    IF lo > hi THEN 0
    ELSE IF lo = hi THEN seq[lo]
    ELSE LET mid == (lo + hi) \div 2
         IN  SumOf(seq, lo, mid) + SumOf(seq, mid + 1, hi)

\* sep.join(parts[lo..hi])
RECURSIVE JoinOf(_, _, _, _)
JoinOf(parts, sep, lo, hi) ==
    IF lo > hi THEN <<>>
    ELSE IF lo = hi THEN parts[lo]
    ELSE LET mid == (lo + hi) \div 2
         IN  JoinOf(parts, sep, lo, mid) \o sep
                 \o JoinOf(parts, sep, mid + 1, hi)

Join(parts, sep) == JoinOf(parts, sep, 1, Len(parts))

(***************************************************************************)
(* re.findall(r"\b[\w'-]+\b", text).  \b needs a \w on exactly one side,   *)
(* so inside each maximal run of [\w'-] the single match runs from the     *)
(* first \w to the last \w of the run (the greedy + backtracks over        *)
(* trailing ' and -, and nothing after the last \w can start a match); a   *)
(* run without a \w yields no match.                                       *)
(***************************************************************************)
FindWords(text) ==
    LET runs == Runs(text, TokenChars)
        trim(r) == LET w == {i \in r[1]..r[2] : text[i] \in WordChars}
                   IN  IF w = {} THEN <<>>
                       ELSE SubSeq(text, SetMin(w), SetMax(w))
        trimmed == [k \in 1..Len(runs) |-> trim(runs[k])]
    IN  SelectSeq(trimmed, LAMBDA w : w # <<>>)

\* \b at the gap before text[i] (i in 1..Len(text)+1)
IsBoundary(text, i) ==
    LET before == i > 1 /\ text[i - 1] \in WordChars
        after == i <= Len(text) /\ text[i] \in WordChars
    IN  before # after

\* start positions at which rf"\b{re.escape(term)}\b" matches text
MatchStarts(text, term) ==
    {i \in 1..(Len(text) - Len(term) + 1) :
        /\ SubSeq(text, i, i + Len(term) - 1) = term
        /\ IsBoundary(text, i)
        /\ IsBoundary(text, i + Len(term))}

\* len(pattern.findall(text)): leftmost matches, each search resuming at the
\* end of the previous match
RECURSIVE CountFrom(_, _, _)
CountFrom(starts, termLen, from) ==
    LET rest == {i \in starts : i >= from}
    IN  IF rest = {} THEN 0
        ELSE 1 + CountFrom(starts, termLen, SetMin(rest) + termLen)

FindallCount(text, term) == CountFrom(MatchStarts(text, term), Len(term), 1)

\* pattern.search(text) is not None
Search(text, term) == MatchStarts(text, term) # {}

(***************************************************************************)
(* Integer helpers for the float arithmetic.                               *)
(***************************************************************************)
Abs(x) == IF x < 0 THEN -x ELSE x
Min2(a, b) == IF a <= b THEN a ELSE b
Max2(a, b) == IF a >= b THEN a ELSE b

\* int(x) for the float x holding n / d, d # 0: Python's int() truncates
\* toward zero; when n / d is a whole number other than 0, a float a hair
\* nearer to zero (err < 0 above zero, err > 0 below) truncates to the
\* whole number before it
TruncDiv(n, d, err) ==
    LET exact == Abs(n) % Abs(d) = 0
        q == Abs(n) \div Abs(d)
    IN  IF (n >= 0) = (d > 0)
        THEN (IF exact /\ q > 0 /\ err < 0 THEN q - 1 ELSE q)
        ELSE (IF exact /\ q > 0 /\ err > 0 THEN -(q - 1) ELSE -q)

\* round(x) for the float x holding n / d, d > 0: Python 3 rounds an exact
\* half to the even neighbour; when n / d is a half, a float a hair above
\* it (err > 0) rounds up and one a hair below (err < 0) down
RoundDiv(n, d, err) ==
    LET fl == n \div d
        twice == 2 * (n - fl * d)
    IN  IF twice < d THEN fl
        ELSE IF twice > d THEN fl + 1
        ELSE IF err > 0 THEN fl + 1
        ELSE IF err < 0 THEN fl
        ELSE IF fl % 2 = 0 THEN fl ELSE fl + 1

(***************************************************************************)
(* _score_range(value, low, high), the three arguments given as integers   *)
(* over one common denominator (the exact result depends on their ratios   *)
(* only), err the sign of the rounding error of the float that int() gets. *)
(* max(high, 1e-9): for high <= 0 the overshoot is divided by 1e-9, and    *)
(* with value - high at least one unit of a denominator below 10^9 the     *)
(* penalty exceeds 100, so the result is max(0, negative) = 0.             *)
(***************************************************************************)
score_range_raises(value, low, high) ==
    \* value / low with low = 0: ZeroDivisionError
    /\ value # 0
    /\ ~(low <= value /\ value <= high)
    /\ value < low
    /\ low = 0

\* score_range with the band test of line 55 made strict
score_range_open_band(value, low, high, err) ==
    IF value = 0 THEN 0
    ELSE IF low < value /\ value < high THEN 100
    ELSE IF value < low
         THEN Max2(0, TruncDiv(value * 80, low, err))
    ELSE IF high <= 0 THEN 0
    ELSE Max2(0, TruncDiv(100 * high - (value - high) * 120, high, err))

\* score_range without the max(0, ...) of line 61
score_range_unfloored(value, low, high, err) ==
    IF value = 0 THEN 0
    ELSE IF low <= value /\ value <= high THEN 100
    ELSE IF value < low
         THEN Max2(0, TruncDiv(value * 80, low, err))
    ELSE IF high <= 0 THEN 0
    ELSE TruncDiv(100 * high - (value - high) * 120, high, err)

\* score_range with the under-shoot ratio of line 58 inverted (low / value)
score_range_inverted(value, low, high, err) ==
    IF value = 0 THEN 0
    ELSE IF low <= value /\ value <= high THEN 100
    ELSE IF value < low
         THEN Max2(0, TruncDiv(low * 80, value, err))
    ELSE IF high <= 0 THEN 0
    ELSE Max2(0, TruncDiv(100 * high - (value - high) * 120, high, err))

score_range(value, low, high, err) ==
    IF value = 0 THEN 0
    ELSE IF low <= value /\ value <= high THEN 100
    ELSE IF value < low
         THEN Max2(0, TruncDiv(value * 80, low, err))
    ELSE IF high <= 0 THEN 0
    ELSE Max2(0, TruncDiv(100 * high - (value - high) * 120, high, err))

\* clamp_score with int() in place of round()
clamp_score_truncating(n, d, err) ==
    Min2(Max2(TruncDiv(n, d, err), 0), 100)

\* _clamp_score(score) for score = n / d, d > 0
clamp_score(n, d, err) == Min2(Max2(RoundDiv(n, d, err), 0), 100)

(***************************************************************************)
(* _score_range called on its own, over a grid of values and bands.        *)
(***************************************************************************)
Grid == (-RangeNeg)..RangeMax

NoResult == [total_score |-> -1]
NoContent == [title |-> <<>>, body |-> <<>>, summary |-> <<>>,
              meta_description |-> <<>>]

EvalIdle ==
    /\ content = NoContent
    /\ keywords = <<>>
    /\ primary_keyword = <<>>
    /\ pc = "idle"
    /\ result = NoResult
    /\ error = ""

(***************************************************************************)
(* The readability estimator.                                              *)
(***************************************************************************)
\* _count_syllables(word)
count_syllables(word) ==
    LET w == Lower(word)
        count == Cardinality({i \in 1..Len(w) :
                     w[i] \in Vowels /\ (i = 1 \/ w[i - 1] \notin Vowels)})
        ends_e == Len(w) > 0 /\ w[Len(w)] = "e"
        cut == IF ends_e /\ count > 1 THEN count - 1 ELSE count
    IN  Max2(cut, 1)

\* the sentences kept by lines 43-44: re.split(r"[.!?]+", text) yields the
\* maximal delimiter-free pieces (and empty strings); a piece is kept when
\* it is not blank
Sentences(text) ==
    LET pieces == Runs(text, Char \ SentenceDelims)
        piece(k) == Strip(SubSeq(text, pieces[k][1], pieces[k][2]))
    IN  SelectSeq([k \in 1..Len(pieces) |-> piece(k)], LAMBDA p : p # <<>>)

\* flesch_reading_ease without the max(..., 1) floors of lines 47-48
flesch_reading_ease_unfloored(text) ==
    LET words == FindWords(text)
        counts == [k \in 1..Len(words) |-> count_syllables(words[k])]
        total == SumOf(counts, 1, Len(counts))
        syllables == IF total = 0 THEN 1 ELSE total
        sentence_count == Len(Sentences(text))
        word_count == Len(words)
    IN  << 41367 * sentence_count * word_count
              - 203 * word_count * word_count
              - 16920 * syllables * sentence_count,
           200 * sentence_count * word_count >>

(***************************************************************************)
(* _flesch_reading_ease(text), as the rational <<numerator, denominator>>  *)
(* over the denominator 200 * sentence_count * word_count:                 *)
(* 206.835 = 41367/200, 1.015 = 203/200 and 84.6 = 16920/200.              *)
(***************************************************************************)
flesch_reading_ease(text) ==
    LET words == FindWords(text)
        counts == [k \in 1..Len(words) |-> count_syllables(words[k])]
        total == SumOf(counts, 1, Len(counts))
        syllables == IF total = 0 THEN 1 ELSE total
        sentence_count == Max2(Len(Sentences(text)), 1)
        word_count == Max2(Len(words), 1)
    IN  << 41367 * sentence_count * word_count
              - 203 * word_count * word_count
              - 16920 * syllables * sentence_count,
           200 * sentence_count * word_count >>

(***************************************************************************)
(* evaluate_seo_content, local by local.                                   *)
(***************************************************************************)
None == <<>>
Some(s) == <<s>>

\* cleaned_keywords keeping the first copy only of a keyword given twice
cleaned_keywords_deduplicated(kws) ==
    LET stripped == [k \in 1..Len(kws) |-> Strip(kws[k])]
        first == {k \in 1..Len(kws) :
                     /\ stripped[k] # <<>>
                     /\ \A j \in 1..(k - 1) : stripped[j] # stripped[k]}
        at(n) == CHOOSE k \in first : Cardinality({j \in first : j < k}) = n - 1
    IN  [n \in 1..Cardinality(first) |-> stripped[at(n)]]

\* line 74
cleaned_keywords(kws) ==
    SelectSeq([k \in 1..Len(kws) |-> Strip(kws[k])], LAMBDA kw : kw # <<>>)

\* primary_of without the .strip() of line 78
primary_of_unstripped(pk, cleaned) ==
    IF pk # None /\ pk[1] # <<>> THEN pk[1] ELSE cleaned[1]

\* line 78: `primary_keyword or cleaned_keywords[0]` takes the argument only
\* when it is a non-empty string
primary_of(pk, cleaned) ==
    Strip(IF pk # None /\ pk[1] # <<>> THEN pk[1] ELSE cleaned[1])

\* keyword_density_of counting every copy of the keyword, inside longer
\* words too
keyword_density_of_substrings(body_lower, words, primary) ==
    LET total_words == Len(words)
        copies == {i \in 1..Len(body_lower) :
                      StartsWith(SubSeq(body_lower, i, Len(body_lower)),
                                 Lower(primary))}
    IN  IF total_words # 0
        THEN <<Cardinality(copies), total_words>>
        ELSE <<0, 1>>

\* lines 84-87: <<len(primary_matches), total_words>>, or <<0, 1>> for 0.0
keyword_density_of(body_lower, words, primary) ==
    LET total_words == Len(words)
    IN  IF total_words # 0
        THEN <<FindallCount(body_lower, Lower(primary)), total_words>>
        ELSE <<0, 1>>

\* line 88: low = 0.007 and high = 0.03 over the denominator 1000 * total
keyword_density_score_of(density, err) ==
    clamp_score(score_range(1000 * density[1], 7 * density[2],
                            30 * density[2], err), 1, 0)

\* keyword_coverage_score_of counting a keyword found anywhere in the body,
\* inside a longer word too
keyword_coverage_score_substring(body_lower, cleaned, err) ==
    LET coverage_hits == Cardinality({k \in 1..Len(cleaned) :
                             Contains(body_lower, Lower(cleaned[k]))})
    IN  clamp_score(coverage_hits * 100, Len(cleaned), err)

\* lines 90-95
keyword_coverage_score_of(body_lower, cleaned, err) ==
    LET coverage_hits == Cardinality({k \in 1..Len(cleaned) :
                             Search(body_lower, Lower(cleaned[k]))})
    IN  clamp_score(coverage_hits * 100, Len(cleaned), err)

\* first_paragraph_score_of searching all the words, without the [:100]
first_paragraph_score_whole_body(words, primary) ==
    IF Contains(Join(words, <<" ">>), Lower(primary)) THEN 100 ELSE 0

\* lines 97-98
first_paragraph_score_of(words, primary) ==
    LET first_100_text == Join(SubSeq(words, 1, Min2(100, Len(words))), <<" ">>)
    IN  IF Contains(first_100_text, Lower(primary)) THEN 100 ELSE 0

\* line 100: the stripped lines; splitlines() also yields the empty lines,
\* which start with neither prefix
heading_lines(body) ==
    LET spans == Runs(body, Char \ {"\n"})
    IN  [k \in 1..Len(spans) |-> Strip(SubSeq(body, spans[k][1], spans[k][2]))]

\* headings_score_of without its two caps (lines 106-107)
headings_score_uncapped(body) ==
    LET lines == heading_lines(body)
        has_h1 == \E k \in 1..Len(lines) : StartsWith(lines[k], <<"#", " ">>)
        h2_count == Cardinality({k \in 1..Len(lines) :
                        StartsWith(lines[k], <<"#", "#", " ">>)})
    IN  (IF has_h1 THEN 40 ELSE 0) + h2_count * 20

\* headings_score_of taking every line that starts with "#" for an H1
headings_score_any_hash(body) ==
    LET lines == heading_lines(body)
        has_h1 == \E k \in 1..Len(lines) : StartsWith(lines[k], <<"#">>)
        h2_count == Cardinality({k \in 1..Len(lines) :
                        StartsWith(lines[k], <<"#", "#", " ">>)})
    IN  Min2((IF has_h1 THEN 40 ELSE 0) + Min2(h2_count, 3) * 20, 100)

\* lines 101-107
headings_score_of(body) ==
    LET lines == heading_lines(body)
        has_h1 == \E k \in 1..Len(lines) : StartsWith(lines[k], <<"#", " ">>)
        h2_count == Cardinality({k \in 1..Len(lines) :
                        StartsWith(lines[k], <<"#", "#", " ">>)})
    IN  Min2((IF has_h1 THEN 40 ELSE 0) + Min2(h2_count, 3) * 20, 100)

\* lines 109-110: low = 50 and high = 70 over the denominator of the value
readability_score_of(body, err) ==
    LET readability == flesch_reading_ease(body)
    IN  clamp_score(score_range(readability[1], 50 * readability[2],
                                70 * readability[2], err), 1, 0)

\* meta_description_score_of with the lower edge of line 116 excluded
meta_description_score_off_by_one(meta_description, primary) ==
    LET meta == Strip(meta_description)
        meta_len == Len(meta)
        meta_contains_primary == Contains(Lower(meta), Lower(primary))
        by_len == IF 120 < meta_len /\ meta_len <= 160 THEN 70
                  ELSE IF (90 <= meta_len /\ meta_len <= 120)
                          \/ (160 < meta_len /\ meta_len <= 180) THEN 40
                  ELSE 0
    IN  Min2(by_len + (IF meta_contains_primary THEN 30 ELSE 0), 100)

\* lines 112-122
meta_description_score_of(meta_description, primary) ==
    LET meta == Strip(meta_description)
        meta_len == Len(meta)
        meta_contains_primary == Contains(Lower(meta), Lower(primary))
        by_len == IF 120 <= meta_len /\ meta_len <= 160 THEN 70
                  ELSE IF (90 <= meta_len /\ meta_len < 120)
                          \/ (160 < meta_len /\ meta_len <= 180) THEN 40
                  ELSE 0
    IN  Min2(by_len + (IF meta_contains_primary THEN 30 ELSE 0), 100)

\* lines 124-139, in hundredths (weights 0.2, 0.15, 0.1, 0.2, 0.2, 0.15) of the
\* density, coverage, first-paragraph, headings, readability and meta scores
weighted_sum_of(kd, kc, fp, hd, rd, md) ==
    20 * kd + 15 * kc + 10 * fp
        + 20 * hd + 20 * rd + 15 * md

NoteDensity == "Adjust keyword density to stay within 0.7% - 3%."
NoteCoverage == "Ensure all target keywords appear at least once."
NotePlacement == "Include the primary keyword within the first 100 words."
NoteHeadings == "Use clear H1 and multiple H2 headings for structure."
NoteReadability ==
    "Simplify language to improve readability (Flesch 50-70 target)."
NoteMeta ==
    "Optimize meta description length and include the primary keyword."

\* notes_of with the placement note appended before the coverage note
notes_of_reordered(kd, kc, fp, hd, rd, md) ==
    (IF kd < 60 THEN <<NoteDensity>> ELSE <<>>)
        \o (IF fp = 0 THEN <<NotePlacement>> ELSE <<>>)
        \o (IF kc < 80 THEN <<NoteCoverage>> ELSE <<>>)
        \o (IF hd < 80 THEN <<NoteHeadings>> ELSE <<>>)
        \o (IF rd < 65 THEN <<NoteReadability>> ELSE <<>>)
        \o (IF md < 90 THEN <<NoteMeta>> ELSE <<>>)

\* lines 142-154
notes_of(kd, kc, fp, hd, rd, md) ==
    (IF kd < 60 THEN <<NoteDensity>> ELSE <<>>)
        \o (IF kc < 80 THEN <<NoteCoverage>> ELSE <<>>)
        \o (IF fp = 0 THEN <<NotePlacement>> ELSE <<>>)
        \o (IF hd < 80 THEN <<NoteHeadings>> ELSE <<>>)
        \o (IF rd < 65 THEN <<NoteReadability>> ELSE <<>>)
        \o (IF md < 90 THEN <<NoteMeta>> ELSE <<>>)

ErrNoKeywords == "At least one keyword is required for SEO evaluation."
ErrNoPrimary == "Primary keyword cannot be empty."

\* lines 74-80: the message of the SEOEvaluationError raised, "" when none
evaluation_error(kws, pk) ==
    LET cleaned == cleaned_keywords(kws)
    IN  IF cleaned = <<>> THEN ErrNoKeywords
        ELSE IF primary_of(pk, cleaned) = <<>> THEN ErrNoPrimary
        ELSE ""

\* line 49 divides by sentence_count and by word_count: a zero there is a
\* ZeroDivisionError, which nothing in the evaluator catches (the division
\* of line 87 is guarded in place, that of line 95 by lines 75-76)
ErrZeroDivision == "ZeroDivisionError"
zero_division(c) == flesch_reading_ease(c.body)[2] = 0

\* lines 82-166: the SEOEvaluation returned when nothing is raised
evaluation_of(c, kws, pk, err) ==
    LET cleaned == cleaned_keywords(kws)
        primary == primary_of(pk, cleaned)
        body_lower == Lower(c.body)
        words == FindWords(body_lower)
        keyword_density == keyword_density_of(body_lower, words, primary)
        keyword_density_score ==
            keyword_density_score_of(keyword_density, err)
        keyword_coverage_score ==
            keyword_coverage_score_of(body_lower, cleaned, err)
        first_paragraph_score == first_paragraph_score_of(words, primary)
        headings_score == headings_score_of(c.body)
        readability_score == readability_score_of(c.body, err)
        meta_description_score ==
            meta_description_score_of(c.meta_description, primary)
        weighted_sum ==
            weighted_sum_of(keyword_density_score, keyword_coverage_score,
                            first_paragraph_score, headings_score,
                            readability_score, meta_description_score)
    IN  [total_score |-> clamp_score(weighted_sum, 100, err),
         keyword_density |-> keyword_density,
         keyword_density_score |-> keyword_density_score,
         keyword_coverage_score |-> keyword_coverage_score,
         first_paragraph_score |-> first_paragraph_score,
         headings_score |-> headings_score,
         readability_score |-> readability_score,
         meta_description_score |-> meta_description_score,
         notes |-> notes_of(keyword_density_score, keyword_coverage_score,
                            first_paragraph_score, headings_score,
                            readability_score, meta_description_score)]

\* one call of evaluate_seo_content(content, keywords, primary_keyword)
Evaluate ==
    /\ pc = "call"
    /\ LET err == evaluation_error(keywords, primary_keyword)
       IN  IF err # ""
           THEN /\ pc' = "raised"
                /\ error' = err
                /\ UNCHANGED result
           ELSE IF zero_division(content)
           THEN /\ pc' = "failed"
                /\ error' = ErrZeroDivision
                /\ UNCHANGED result
           ELSE /\ pc' = "returned"
                /\ result' = evaluation_of(content, keywords, primary_keyword,
                                           fperr)
                /\ UNCHANGED error
    /\ UNCHANGED <<content, keywords, primary_keyword, fperr>>
    /\ UNCHANGED rangeVars
    /\ UNCHANGED threadVars
    /\ UNCHANGED pipeVars

(***************************************************************************)
(* The inputs the evaluator is called with.                                *)
(***************************************************************************)
\* "seo"
KwSeo == <<"s", "e", "o">>

\* " Tea "
KwTea == <<" ", "T", "e", "a", " ">>

\* " "
KwBlank == <<" ">>

\* ""
KwEmpty == <<>>

\* "SEO "
PkSeo == <<"S", "E", "O", " ">>

\* "se"
PkSe == <<"s", "e">>

\* "be"
Filler == <<"b", "e">>

\* "# Seo tea"
HeadH1 == <<"#", " ", "S", "e", "o", " ", "t", "e", "a">>

\* "  # Seo "
HeadIndented == <<" ", " ", "#", " ", "S", "e", "o", " ">>

\* "#Seo"
HeadNoSpace == <<"#", "S", "e", "o">>

\* "## Tea bits"
HeadH2 == <<"#", "#", " ", "T", "e", "a", " ", "b", "i", "t", "s">>

\* " \n\t"
ParaBlank == <<" ", "\n", "\t">>

\* "Seo is easy. Eat toast!"
ParaShort ==
    <<"S", "e", "o", " ", "i", "s", " ", "e", "a", "s", "y", ".", " ", "E",
      "a", "t", " ", "t", "o", "a", "s", "t", "!">>

\* "Tea is easy beauty essay."
ParaEasy ==
    <<"T", "e", "a", " ", "i", "s", " ", "e", "a", "s", "y", " ", "b", "e",
      "a", "u", "t", "y", " ", "e", "s", "s", "a", "y", ".">>

\* "seos toast, it's so-so -- seo-tea?"
ParaHyphen ==
    <<"s", "e", "o", "s", " ", "t", "o", "a", "s", "t", ",", " ", "i", "t",
      "'", "s", " ", "s", "o", "-", "s", "o", " ", "-", "-", " ", "s", "e",
      "o", "-", "t", "e", "a", "?">>

\* "-- ' ..!"
ParaMarks == <<"-", "-", " ", "'", " ", ".", ".", "!">>

\* "Tea. Tea? So, tea."
ParaTea ==
    <<"T", "e", "a", ".", " ", "T", "e", "a", "?", " ", "S", "o", ",", " ",
      "t", "e", "a", ".">>

\* "### tea\n##\n# \n#\tseo\n##tea"
ParaFakeHeads ==
    <<"#", "#", "#", " ", "t", "e", "a", "\n", "#", "#", "\n", "#", " ",
      "\n", "#", "\t", "s", "e", "o", "\n", "#", "#", "t", "e", "a">>

\* "Seos eat teabits, seo_tea 1seo tea1."
ParaPartial ==
    <<"S", "e", "o", "s", " ", "e", "a", "t", " ", "t", "e", "a", "b", "i",
      "t", "s", ",", " ", "s", "e", "o", "_", "t", "e", "a", " ", "1", "s",
      "e", "o", " ", "t", "e", "a", "1", ".">>

\* "Seo "
MetaLead == <<"S", "e", "o", " ">>


\* n words, the word at each (0-based) index of at being "seo" and every
\* other the filler, separated by single spaces and closed by a full stop
LongPara(n, at) ==
    Join([k \in 1..n |-> IF (k - 1) \in at THEN KwSeo ELSE Filler], <<" ">>)
        \o <<".">>

\* LongPara in sentences: a full stop also closes the word at each (0-based)
\* index of stops
LongText(n, at, stops) ==
    Join([k \in 1..n |->
             (IF (k - 1) \in at THEN KwSeo ELSE Filler)
                 \o (IF (k - 1) \in stops \/ k = n THEN <<".">> ELSE <<>>)],
         <<" ">>)

\* ParaEasy seven times over: short sentences of short words
ParaGood == Join([k \in 1..7 |-> ParaEasy], <<" ">>)

Paragraphs ==
    {<<>>, ParaBlank, ParaShort, ParaEasy, ParaHyphen, ParaMarks, ParaTea,
     ParaFakeHeads, ParaGood,
     LongPara(30, {3}), LongPara(100, {10}), LongPara(100, {0, 50, 99}),
     LongPara(150, {120}), LongPara(200, {5}), LongPara(20, {1, 7})}

Heads == {<<>>, HeadH1, HeadIndented, HeadNoSpace}

\* the head line, h2 "## " lines and the paragraph, one per line
BodyOf(head, h2, para) ==
    Join(SelectSeq(<<head>> \o [k \in 1..h2 |-> HeadH2] \o <<para>>,
                   LAMBDA line : line # <<>>), <<"\n">>)

\* a meta description of n characters after its lead, between the pads
MetaOf(lead, n, padLeft, padRight) ==
    padLeft \o lead \o Rep(<<"a">>, n - Len(lead)) \o padRight

MetaLengths == {0, 50, 89, 90, 100, 119, 120, 140, 160, 161, 180, 181}

Metas ==
    {MetaOf(lead, n, <<>>, <<>>) : lead \in {<<>>, MetaLead}, n \in MetaLengths}
        \cup {MetaOf(<<>>, n, <<" ">>, <<"\n", " ">>) : n \in {119, 160, 180}}
        \cup {MetaOf(KwSeo, 3, <<>>, <<>>)}

PlainMeta == MetaOf(<<>>, 100, <<>>, <<>>)
GoodMeta == MetaOf(MetaLead, 140, <<>>, <<>>)

KeywordPool == {KwSeo, KwTea, KwBlank, KwEmpty}
KeywordLists == UNION {[1..n -> KeywordPool] : n \in 0..MaxKeywords}
PrimaryKeywords == {None, Some(<<>>), Some(KwBlank), Some(PkSeo), Some(PkSe)}

ContentOf(body, meta) ==
    [title |-> HeadH1, body |-> body, summary |-> ParaShort,
     meta_description |-> meta]

Call(c, kws, pk, err) ==
    [content |-> c, keywords |-> kws, primary_keyword |-> pk, fperr |-> err]

\* every heading structure, over an empty and a short paragraph
HeadingCalls ==
    {Call(ContentOf(BodyOf(head, h2, para), GoodMeta), <<KwSeo>>, None, 0) :
        head \in Heads, h2 \in 0..MaxH2, para \in {<<>>, ParaShort}}

\* every paragraph, bare and under a full set of headings
BodyCalls ==
    {Call(ContentOf(BodyOf(head, h2, para), meta), kws, pk, err) :
        head \in {HeadH1}, h2 \in {3}, para \in Paragraphs,
        meta \in {<<>>, PlainMeta, GoodMeta},
        kws \in {<<KwSeo>>, <<KwSeo, KwTea>>},
        pk \in {None, Some(PkSe)}, err \in {-1, 0, 1}}
    \cup
    {Call(ContentOf(para, meta), kws, pk, err) :
        para \in Paragraphs, meta \in {<<>>, PlainMeta, GoodMeta},
        kws \in {<<KwSeo>>, <<KwSeo, KwTea>>},
        pk \in {None, Some(PkSe)}, err \in {-1, 0, 1}}

\* every meta description
MetaCalls ==
    {Call(ContentOf(body, meta), <<KwSeo>>, pk, 0) :
        body \in {<<>>, ParaShort}, meta \in Metas, pk \in {None, Some(PkSeo)}}

\* every keywords list with every primary keyword
ArgumentCalls ==
    {Call(ContentOf(body, meta), kws, pk, 0) :
        body \in {<<>>, BodyOf(HeadH1, 1, ParaHyphen)},
        meta \in {<<>>, GoodMeta},
        kws \in KeywordLists, pk \in PrimaryKeywords}

\* long bodies with the keyword on either side of the 100th word, bare and
\* pushed two words further by an H2 line
PlacementParagraphs ==
    {LongText(500, {150}, {199, 399}), LongText(500, {10}, {199, 399}),
     LongPara(150, {99}),
     LongPara(150, {100}), LongPara(150, {97}), LongPara(150, {98})}

PlacementCalls ==
    {Call(ContentOf(BodyOf(<<>>, h2, para), GoodMeta), <<KwSeo>>, pk, 0) :
        h2 \in {0, 1}, para \in PlacementParagraphs,
        pk \in {None, Some(PkSeo), Some(PkSe)}}

\* 1000-word bodies in eight sentences, with densities on and off the lower
\* edge 0.007 of the band
DensityStops == {124, 249, 374, 499, 624, 749, 874}
DensityParagraphs ==
    {LongText(1000, {0, 100, 200, 300, 400, 500, 600}, DensityStops),
     LongText(1000, {0, 100, 200, 300, 400, 500}, DensityStops),
     LongText(1000, {0, 100, 200, 300, 400, 500, 600, 700}, DensityStops)}

DensityCalls ==
    {Call(ContentOf(body, GoodMeta), <<KwSeo>>, None, err) :
        body \in DensityParagraphs, err \in {-1, 0, 1}}

\* every keywords list over bodies that hold the keywords inside longer
\* words only, as whole words, and not at all
CoverageCalls ==
    {Call(ContentOf(body, GoodMeta), kws, None, err) :
        body \in {ParaPartial, ParaTea, ParaShort},
        kws \in KeywordLists, err \in {-1, 0, 1}}

\* keywords given twice, and long lists with one keyword the body lacks
RepeatedLists ==
    {<<KwSeo, KwSeo, KwTea>>, <<KwTea, KwSeo, KwSeo>>,
     <<KwBlank, KwTea, KwSeo, KwTea>>, <<KwTea, KwBlank, KwTea, KwTea>>,
     [k \in 1..199 |-> IF k = 7 THEN KwTea ELSE KwSeo],
     [k \in 1..200 |-> IF k = 7 THEN KwTea ELSE KwSeo],
     [k \in 1..201 |-> IF k = 7 THEN KwTea ELSE KwSeo]}

RepeatedCalls ==
    {Call(ContentOf(body, GoodMeta), kws, None, err) :
        body \in {ParaShort, ParaTea, ParaHyphen},
        kws \in RepeatedLists, err \in {-1, 0, 1}}

Calls ==
    HeadingCalls \cup BodyCalls \cup MetaCalls \cup ArgumentCalls
        \cup PlacementCalls \cup CoverageCalls \cup DensityCalls
        \cup RepeatedCalls

RangeIdle ==
    /\ sr_value = 0
    /\ sr_low = 0
    /\ sr_high = 0
    /\ sr_pc = "idle"
    /\ sr_out = 0
    /\ sr_prev = <<>>

Threads == 1..MaxThreads

ThreadsIdle ==
    /\ args = <<>>
    /\ th_pc = [t \in Threads |-> "idle"]
    /\ th_in = [t \in Threads |-> 0]
    /\ th_frame = [t \in Threads |-> NoResult]
    /\ th_notes = [t \in Threads |-> <<>>]
    /\ started = 0
    /\ done = <<>>

NoError == [type |-> "", cause |-> ""]
NoData ==
    [config |-> <<>>, keywords |-> <<>>, content |-> <<>>,
     evaluation |-> <<>>, csv_path |-> <<>>, content_json_path |-> <<>>,
     evaluation_json_path |-> <<>>]

PipelineIdle ==
    /\ p_steps = <<>>
    /\ p_index = 0
    /\ p_pc = "idle"
    /\ p_data = NoData
    /\ p_prev = NoData
    /\ p_client = FALSE
    /\ p_files = {}
    /\ p_printed = FALSE
    /\ p_exit = -1
    /\ p_error = NoError
    /\ p_attempts = <<>>
    /\ p_fellback = {}
    /\ p_used = <<>>

Init ==
    /\ \E c \in Calls :
        /\ content = c.content
        /\ keywords = c.keywords
        /\ primary_keyword = c.primary_keyword
        /\ fperr = c.fperr
    /\ pc = "call"
    /\ result = NoResult
    /\ error = ""
    /\ RangeIdle
    /\ ThreadsIdle
    /\ PipelineIdle

InitRange ==
    /\ EvalIdle
    /\ fperr \in {-1, 0, 1}
    /\ sr_value \in Grid
    /\ sr_low \in Grid
    /\ sr_high \in Grid
    /\ sr_pc = "call"
    /\ sr_out = 0
    /\ sr_prev = <<>>
    /\ ThreadsIdle
    /\ PipelineIdle

\* one call of _score_range(sr_value, sr_low, sr_high)
ScoreRangeCall ==
    /\ sr_pc = "call"
    /\ IF score_range_raises(sr_value, sr_low, sr_high)
       THEN /\ sr_pc' = "raised"
            /\ UNCHANGED sr_out
       ELSE /\ sr_pc' = "returned"
            /\ sr_out' = score_range(sr_value, sr_low, sr_high, fperr)
    /\ UNCHANGED <<sr_value, sr_low, sr_high, sr_prev>>
    /\ UNCHANGED evalVars
    /\ UNCHANGED threadVars
    /\ UNCHANGED pipeVars

\* the caller keeps the result and calls again with another value and the
\* same band
ScoreRangeAgain ==
    /\ sr_pc = "returned"
    /\ sr_prev = <<>>
    /\ sr_prev' = <<[value |-> sr_value, out |-> sr_out]>>
    /\ sr_value' \in Grid
    /\ sr_pc' = "call"
    /\ UNCHANGED <<sr_low, sr_high, sr_out>>
    /\ UNCHANGED evalVars
    /\ UNCHANGED threadVars
    /\ UNCHANGED pipeVars

NextRange == ScoreRangeCall \/ ScoreRangeAgain

SpecRange == InitRange /\ [][NextRange]_vars

Next == Evaluate

Spec == Init /\ [][Next]_vars

(***************************************************************************)
(* Calls of evaluate_seo_content made by several threads, each call taken  *)
(* in steps so that the calls interleave.  Everything a call writes is a   *)
(* local of its own frame; the one object it allocates and then updates in *)
(* place is the notes list of line 142.  The arguments are the caller's    *)
(* objects: the calls get references to them.                              *)
(***************************************************************************)
\* the argument objects the callers hold: a call that returns notes, one
\* that returns other notes, and one that raises
ThreadArgs ==
    <<[content |-> ContentOf(BodyOf(HeadH1, 1, ParaHyphen), MetaLead),
       keywords |-> <<KwSeo, KwTea>>, primary_keyword |-> None],
      [content |-> ContentOf(ParaEasy, <<>>),
       keywords |-> <<KwSeo>>, primary_keyword |-> Some(PkSe)],
      [content |-> ContentOf(ParaShort, <<>>),
       keywords |-> <<KwBlank>>, primary_keyword |-> None]>>

\* every call appending to one list, as a module-level list would be
notes_cell_shared(t) == 1

\* line 142: `notes: List[str] = []` binds a local of the call's own frame
notes_cell(t) == t

\* a list kept from the earlier call, as a mutable default argument would be
new_notes_reused(old) == old

\* line 142: the list is a new, empty one in every call
new_notes(old) == <<>>

\* no float of the calls on ThreadArgs lies on a tie of round() or a step of
\* int(), so that the sign of the rounding error plays no part here
InitThreads ==
    /\ EvalIdle
    /\ RangeIdle
    /\ fperr = 0
    /\ args = ThreadArgs
    /\ th_pc = [t \in Threads |-> "idle"]
    /\ th_in = [t \in Threads |-> 0]
    /\ th_frame = [t \in Threads |-> NoResult]
    /\ th_notes = [t \in Threads |-> <<>>]
    /\ started = 0
    /\ done = <<>>
    /\ PipelineIdle

\* the inputs the other threads are evaluating at this moment
Meanwhile(t) == {th_in[u] : u \in {v \in Threads \ {t} : th_pc[v] # "idle"}}

\* a thread calls evaluate_seo_content with one of the argument objects
StartCall(t) ==
    /\ th_pc[t] = "idle"
    /\ started < MaxCalls
    /\ started' = started + 1
    /\ \E i \in 1..Len(args) : th_in' = [th_in EXCEPT ![t] = i]
    /\ th_pc' = [th_pc EXCEPT ![t] = "score"]
    /\ UNCHANGED <<args, th_frame, th_notes, done>>
    /\ UNCHANGED <<evalVars, rangeVars, pipeVars>>

\* lines 74-140: normalize the keywords, settle the primary keyword, raise,
\* or compute the metrics, the sub-scores and the total, all of them locals
ComputeScores(t) ==
    /\ th_pc[t] = "score"
    /\ LET a == args[th_in[t]]
           err == evaluation_error(a.keywords, a.primary_keyword)
       IN  IF err # "" \/ zero_division(a.content)
           THEN /\ done' =
                      Append(done,
                          [input |-> th_in[t],
                           kind |-> IF err # "" THEN "raised" ELSE "failed",
                           result |-> NoResult,
                           error |-> IF err # "" THEN err
                                     ELSE ErrZeroDivision,
                           during |-> Meanwhile(t)])
                /\ th_pc' = [th_pc EXCEPT ![t] = "idle"]
                /\ UNCHANGED th_frame
           ELSE /\ th_frame' =
                      [th_frame EXCEPT ![t] =
                          evaluation_of(a.content, a.keywords,
                                        a.primary_keyword, fperr)]
                /\ th_pc' = [th_pc EXCEPT ![t] = "notes"]
                /\ UNCHANGED done
    /\ UNCHANGED <<args, th_in, th_notes, started>>
    /\ UNCHANGED <<evalVars, rangeVars, pipeVars>>

\* line 142: notes = []
NewNotes(t) ==
    /\ th_pc[t] = "notes"
    /\ th_notes' = [th_notes EXCEPT ![notes_cell(t)] = new_notes(@)]
    /\ th_pc' = [th_pc EXCEPT ![t] = "append"]
    /\ UNCHANGED <<args, th_in, th_frame, started, done>>
    /\ UNCHANGED <<evalVars, rangeVars, pipeVars>>

\* lines 143-154: the six conditional notes.append
AppendNotes(t) ==
    /\ th_pc[t] = "append"
    /\ LET r == th_frame[t]
       IN  th_notes' =
               [th_notes EXCEPT ![notes_cell(t)] =
                   @ \o notes_of(r.keyword_density_score,
                                 r.keyword_coverage_score,
                                 r.first_paragraph_score, r.headings_score,
                                 r.readability_score,
                                 r.meta_description_score)]
    /\ th_pc' = [th_pc EXCEPT ![t] = "return"]
    /\ UNCHANGED <<args, th_in, th_frame, started, done>>
    /\ UNCHANGED <<evalVars, rangeVars, pipeVars>>

\* lines 156-166: return SEOEvaluation(..., notes=notes)
ReturnResult(t) ==
    /\ th_pc[t] = "return"
    /\ done' = Append(done,
                 [input |-> th_in[t], kind |-> "returned",
                  result |-> [th_frame[t] EXCEPT
                                 !.notes = th_notes[notes_cell(t)]],
                  error |-> "", during |-> Meanwhile(t)])
    /\ th_pc' = [th_pc EXCEPT ![t] = "idle"]
    /\ th_frame' = [th_frame EXCEPT ![t] = NoResult]
    /\ UNCHANGED <<args, th_in, th_notes, started>>
    /\ UNCHANGED <<evalVars, rangeVars, pipeVars>>

ThreadStep(t) ==
    \/ StartCall(t)
    \/ ComputeScores(t)
    \/ NewNotes(t)
    \/ AppendNotes(t)
    \/ ReturnResult(t)

NextThreads == \E t \in Threads : ThreadStep(t)

SpecThreads == InitThreads /\ [][NextThreads]_vars

(***************************************************************************)
(* The pipeline runner (src/run_pipeline.py).  main calls run_pipeline,    *)
(* whose loop takes the steps of commands.json one by one and calls the    *)
(* handler of each.  What the collaborators outside the runner do (the     *)
(* configuration file, the language model behind the client, the file      *)
(* system) is a choice among the outcomes they can have.                   *)
(***************************************************************************)
\* " " and "be" and "tea", as configuration and model texts
TextBlank == KwBlank
TextPlain == Filler
KwExtracted == <<"t", "e", "a">>

\* an SEOConfig (config_handler.py)
Config(description, type, kws) ==
    [website_description |-> description, content_category |-> TextPlain,
     content_type |-> type, seo_preferences |-> [keywords |-> kws],
     content_settings |-> [tone |-> TextPlain, length |-> 1]]

\* configurations load_config can return: one with a keyword and a blank
\* content_type, one with no keywords and a blank description, one whose
\* first keyword is blank
Configs ==
    {Config(TextPlain, TextBlank, <<KwSeo>>),
     Config(TextBlank, TextPlain, <<>>),
     Config(TextPlain, TextPlain, <<KwBlank, KwSeo>>)}

\* the SEOContent generate_seo_content returns: "Seo" over "Seo tea."
PipelineContent ==
    [title |-> <<"S", "e", "o">>,
     body |-> <<"S", "e", "o", " ", "t", "e", "a", ".">>,
     summary |-> <<"S", "e", "o">>,
     meta_description |-> <<"S", "e", "o">>]

PathContent == "output/content.json"
PathReport == "output/report.json"
PathCsv == "output/article.csv"
SourceAuto == <<"auto">>
SourceContentType == <<"config", "content_type">>

\* a step of commands.json; operation "" stands for a step without one
Step(operation, fallback, source, output) ==
    [operation |-> operation, fallback_to_config_keywords |-> fallback,
     primary_keyword_source |-> source, output_path |-> output]

StepPool ==
    {Step("", FALSE, SourceAuto, None),
     Step("publish", FALSE, SourceAuto, None),
     Step("load_config", FALSE, SourceAuto, None),
     Step("extract_keywords", FALSE, SourceAuto, None),
     Step("extract_keywords", TRUE, SourceAuto, None),
     Step("generate_content", FALSE, SourceAuto, Some(PathContent)),
     Step("evaluate_content", FALSE, SourceAuto, Some(PathReport)),
     Step("evaluate_content", FALSE, SourceContentType, Some(PathReport)),
     Step("export_csv", FALSE, SourceAuto, None)}

\* lines 231-237
STEP_HANDLERS ==
    {"load_config", "extract_keywords", "generate_content",
     "evaluate_content", "export_csv"}

\* lines 70-89: _resolve_value(state, descriptor, default), the descriptor
\* split at its dots
RECURSIVE resolve_parts(_, _)
resolve_parts(current, parts) ==
    IF parts = <<>> THEN current
    ELSE IF current = None THEN None
    ELSE resolve_parts(
             IF parts[1] \in DOMAIN current[1]
             THEN Some(current[1][parts[1]]) ELSE None,
             Tail(parts))

resolve_value(data, descriptor, default) ==
    IF descriptor = <<>> THEN default
    ELSE LET root == descriptor[1]
             current == resolve_parts(
                            IF root \in DOMAIN data THEN data[root] ELSE None,
                            Tail(descriptor))
         IN  IF current # None THEN current[1] ELSE default

\* state.data[key] = value on a dict made anew
store_anew(data, key, value) == [NoData EXCEPT ![key] = Some(value)]

\* state.data[key] = value (lines 110, 137, 169, 175, 201, 209, 227)
store(data, key, value) == [data EXCEPT ![key] = Some(value)]

\* `state.keywords or config.seo_preferences.keywords` (lines 145, 185, 219)
\* with the first operand replaced by the configuration's list always
keywords_for_config_only(data) == data.config[1].seo_preferences.keywords

\* `state.keywords or config.seo_preferences.keywords` (lines 145, 185, 219)
keywords_for(data) ==
    IF data.keywords # None /\ data.keywords[1] # <<>>
    THEN data.keywords[1]
    ELSE data.config[1].seo_preferences.keywords

\* [kw.strip() for kw in keywords if kw and kw.strip()] is empty
\* (content.py line 32, exporter.py line 18)
NoCleanKeyword(kws) == \A k \in 1..Len(kws) : Strip(kws[k]) = <<>>

\* no float of the evaluations of PipelineContent lies on a tie of round()
\* or a step of int(), so that the sign of the rounding error plays no part
InitPipeline ==
    /\ EvalIdle
    /\ RangeIdle
    /\ ThreadsIdle
    /\ fperr = 0
    /\ p_steps \in UNION {[1..n -> StepPool] : n \in 0..MaxSteps}
    /\ p_index = 1
    /\ p_pc = "loop"
    /\ p_data = NoData
    /\ p_prev = NoData
    /\ p_client = FALSE
    /\ p_files = {}
    /\ p_printed = FALSE
    /\ p_exit = -1
    /\ p_error = NoError
    /\ p_attempts = [k \in 1..Len(p_steps) |-> 0]
    /\ p_fellback = {}
    /\ p_used = None

CurrentStep == p_steps[p_index]

\* the exception caught inside the loop, which goes on to the next step
RaiseSwallowed(type, cause) ==
    /\ p_pc' = "loop"
    /\ p_index' = p_index + 1
    /\ p_error' = [type |-> type, cause |-> cause]
    /\ UNCHANGED <<p_steps, p_printed, p_exit, p_attempts, p_prev>>

\* line 257: an exception of the handler leaves the loop and run_pipeline
Raise(type, cause) ==
    /\ p_pc' = "failed"
    /\ p_error' = [type |-> type, cause |-> cause]
    /\ UNCHANGED <<p_steps, p_index, p_printed, p_exit, p_attempts, p_prev>>

\* the loop going on to the step after the next
ReturnSkipping ==
    /\ p_pc' = "loop"
    /\ p_index' = p_index + 2
    /\ UNCHANGED <<p_steps, p_printed, p_exit, p_error, p_attempts, p_prev>>

\* lines 247, 257: the handler returned, the loop goes on to the next step
Return ==
    /\ p_pc' = "loop"
    /\ p_index' = p_index + 1
    /\ UNCHANGED <<p_steps, p_printed, p_exit, p_error, p_attempts, p_prev>>

\* lines 247-257: the loop takes the next step, checks its operation and
\* calls the handler; past the last step it leaves the loop
Dispatch ==
    /\ p_pc = "loop"
    /\ p_index <= Len(p_steps)
    /\ IF CurrentStep.operation = ""
       THEN /\ p_pc' = "failed"
            /\ p_error' = [type |-> "ValueError", cause |-> "missing operation"]
            /\ UNCHANGED <<p_attempts, p_prev>>
       ELSE IF CurrentStep.operation \notin STEP_HANDLERS
       THEN /\ p_pc' = "failed"
            /\ p_error' = [type |-> "ValueError",
                           cause |-> "unsupported operation"]
            /\ UNCHANGED <<p_attempts, p_prev>>
       ELSE /\ p_pc' = "handler"
            /\ p_attempts' = [p_attempts EXCEPT ![p_index] = @ + 1]
            /\ p_prev' = p_data
            /\ UNCHANGED p_error
    /\ p_used' = None
    /\ UNCHANGED <<p_steps, p_index, p_data, p_client, p_files, p_printed,
                   p_exit, p_fellback>>
    /\ UNCHANGED <<evalVars, rangeVars, threadVars>>

\* lines 259-265: after the loop
Complete ==
    /\ p_pc = "loop"
    /\ p_index > Len(p_steps)
    /\ p_printed' = TRUE
    /\ p_pc' = "completed"
    /\ UNCHANGED <<p_steps, p_index, p_data, p_prev, p_client, p_files,
                   p_exit, p_error, p_attempts, p_fellback, p_used>>
    /\ UNCHANGED <<evalVars, rangeVars, threadVars>>

\* lines 107-113
HandleLoadConfig ==
    /\ p_pc = "handler"
    /\ CurrentStep.operation = "load_config"
    /\ \/ \E config \in Configs :
            /\ p_data' = store(p_data, "config", config)
            /\ Return
       \/ /\ \E type \in {"FileNotFoundError", "ValueError"} :
                Raise(type, "load_config")
          /\ UNCHANGED p_data
    /\ UNCHANGED <<p_client, p_files, p_fellback, p_used>>
    /\ UNCHANGED <<evalVars, rangeVars, threadVars>>

\* lines 116-137
HandleExtractKeywords ==
    /\ p_pc = "handler"
    /\ CurrentStep.operation = "extract_keywords"
    /\ IF p_data.config = None
       THEN /\ Raise("RuntimeError", "no configuration")
            /\ UNCHANGED <<p_data, p_client, p_fellback>>
       ELSE LET config == p_data.config[1]
                description == config.website_description
                fallback_to_config == CurrentStep.fallback_to_config_keywords
            IN  \/ /\ ~p_client
                   /\ Raise("RuntimeError", "EnvConfigError")
                   /\ UNCHANGED <<p_data, p_client, p_fellback>>
                \/ /\ p_client' = TRUE
                   /\ \/ /\ Strip(description) # <<>>
                         /\ p_data' = store(p_data, "keywords", <<KwExtracted>>)
                         /\ UNCHANGED p_fellback
                         /\ Return
                      \/ /\ Strip(description) # <<>>
                         /\ Raise("RuntimeError", "chat_completion")
                         /\ UNCHANGED <<p_data, p_fellback>>
                      \/ \* extract_seo_keywords raised KeywordExtractionError
                         IF fallback_to_config
                         THEN /\ p_data' =
                                    store(p_data, "keywords",
                                          config.seo_preferences.keywords)
                              /\ p_fellback' = p_fellback \cup {p_index}
                              /\ Return
                         ELSE /\ Raise("RuntimeError",
                                       "KeywordExtractionError")
                              /\ UNCHANGED <<p_data, p_fellback>>
    /\ UNCHANGED <<p_files, p_used>>
    /\ UNCHANGED <<evalVars, rangeVars, threadVars>>

\* lines 140-176
HandleGenerateContent ==
    /\ p_pc = "handler"
    /\ CurrentStep.operation = "generate_content"
    /\ IF p_data.config = None
       THEN /\ Raise("RuntimeError", "no configuration")
            /\ UNCHANGED <<p_data, p_client, p_files, p_used>>
       ELSE IF keywords_for(p_data) = <<>>
       THEN /\ Raise("RuntimeError", "no keywords")
            /\ UNCHANGED <<p_data, p_client, p_files, p_used>>
       ELSE \/ /\ ~p_client
               /\ Raise("RuntimeError", "EnvConfigError")
               /\ UNCHANGED <<p_data, p_client, p_files, p_used>>
            \/ /\ p_client' = TRUE
               /\ p_used' = Some(keywords_for(p_data))
               /\ \/ /\ Raise("RuntimeError", "ContentGenerationError")
                     /\ UNCHANGED <<p_data, p_files>>
                  \/ /\ ~NoCleanKeyword(keywords_for(p_data))
                     /\ Raise("RuntimeError", "chat_completion")
                     /\ UNCHANGED <<p_data, p_files>>
                  \/ /\ ~NoCleanKeyword(keywords_for(p_data))
                     /\ IF CurrentStep.output_path = None
                        THEN /\ p_data' =
                                   store(p_data, "content", PipelineContent)
                             /\ UNCHANGED p_files
                             /\ Return
                        ELSE \/ /\ p_data' =
                                      store(store(p_data, "content",
                                                  PipelineContent),
                                            "content_json_path",
                                            CurrentStep.output_path[1])
                                /\ p_files' =
                                      p_files \cup {CurrentStep.output_path[1]}
                                /\ Return
                             \/ /\ p_data' =
                                      store(p_data, "content", PipelineContent)
                                /\ UNCHANGED p_files
                                /\ Raise("OSError", "_write_json")
    /\ UNCHANGED p_fellback
    /\ UNCHANGED <<evalVars, rangeVars, threadVars>>

\* lines 179-210
HandleEvaluateContent ==
    /\ p_pc = "handler"
    /\ CurrentStep.operation = "evaluate_content"
    /\ IF p_data.content = None \/ p_data.config = None
       THEN /\ Raise("RuntimeError", "no content or configuration")
            /\ UNCHANGED <<p_data, p_files, p_used>>
       ELSE IF keywords_for(p_data) = <<>>
       THEN /\ Raise("RuntimeError", "no keywords")
            /\ UNCHANGED <<p_data, p_files, p_used>>
       ELSE LET kws == keywords_for(p_data)
                primary_source == CurrentStep.primary_keyword_source
                pk == IF primary_source = SourceAuto THEN kws[1]
                      ELSE resolve_value(p_data, primary_source, kws[1])
            IN  /\ p_used' = Some(kws)
                /\ IF evaluation_error(kws, Some(pk)) # ""
                   THEN /\ Raise("RuntimeError", "SEOEvaluationError")
                        /\ UNCHANGED <<p_data, p_files>>
                   ELSE \E evaluation \in
                               {evaluation_of(p_data.content[1], kws, Some(pk),
                                              fperr)} :
                          IF CurrentStep.output_path = None
                          THEN /\ p_data' =
                                     store(p_data, "evaluation", evaluation)
                               /\ UNCHANGED p_files
                               /\ Return
                          ELSE \/ /\ p_data' =
                                        store(store(p_data, "evaluation",
                                                    evaluation),
                                              "evaluation_json_path",
                                              CurrentStep.output_path[1])
                                  /\ p_files' =
                                        p_files
                                            \cup {CurrentStep.output_path[1]}
                                  /\ Return
                               \/ /\ p_data' =
                                        store(p_data, "evaluation", evaluation)
                                  /\ UNCHANGED p_files
                                  /\ Raise("OSError", "_write_json")
    /\ UNCHANGED <<p_client, p_fellback>>
    /\ UNCHANGED <<evalVars, rangeVars, threadVars>>

\* lines 213-228
HandleExportCsv ==
    /\ p_pc = "handler"
    /\ CurrentStep.operation = "export_csv"
    /\ IF p_data.content = None \/ p_data.config = None
       THEN /\ Raise("RuntimeError", "no content or configuration")
            /\ UNCHANGED <<p_data, p_files, p_used>>
       ELSE IF keywords_for(p_data) = <<>>
       THEN /\ Raise("RuntimeError", "no keywords")
            /\ UNCHANGED <<p_data, p_files, p_used>>
       ELSE /\ p_used' = Some(keywords_for(p_data))
            /\ IF NoCleanKeyword(keywords_for(p_data))
               THEN /\ Raise("ValueError", "export_content_to_csv")
                    /\ UNCHANGED <<p_data, p_files>>
               ELSE \/ /\ p_data' = store(p_data, "csv_path", PathCsv)
                       /\ p_files' = p_files \cup {PathCsv}
                       /\ Return
                    \/ /\ Raise("OSError", "export_content_to_csv")
                       /\ UNCHANGED <<p_data, p_files>>
    /\ UNCHANGED <<p_client, p_fellback>>
    /\ UNCHANGED <<evalVars, rangeVars, threadVars>>

\* lines 268-276: main reports the exception and exits with status 1
MainExit ==
    /\ p_pc = "failed"
    /\ p_pc' = "exited"
    /\ p_exit' = 1
    /\ UNCHANGED <<p_steps, p_index, p_data, p_prev, p_client, p_files,
                   p_printed, p_error, p_attempts, p_fellback, p_used>>
    /\ UNCHANGED <<evalVars, rangeVars, threadVars>>

\* lines 268-276: run_pipeline returned and so does main
MainReturn ==
    /\ p_pc = "completed"
    /\ p_pc' = "returned"
    /\ p_exit' = 0
    /\ UNCHANGED <<p_steps, p_index, p_data, p_prev, p_client, p_files,
                   p_printed, p_error, p_attempts, p_fellback, p_used>>
    /\ UNCHANGED <<evalVars, rangeVars, threadVars>>

NextPipeline ==
    \/ Dispatch
    \/ Complete
    \/ HandleLoadConfig
    \/ HandleExtractKeywords
    \/ HandleGenerateContent
    \/ HandleEvaluateContent
    \/ HandleExportCsv
    \/ MainExit
    \/ MainReturn

SpecPipeline == InitPipeline /\ [][NextPipeline]_vars

(***************************************************************************)
(* Properties.                                                             *)
(***************************************************************************)
Returned == pc = "returned"
Ended == pc \in {"returned", "raised", "failed"}

SubScores(r) ==
    <<r.keyword_density_score, r.keyword_coverage_score,
      r.first_paragraph_score, r.headings_score, r.readability_score,
      r.meta_description_score>>

\* C1: whenever evaluate returns, total_score and each of the six
\* sub-scores is an integer in [0,100].
C1_ScoresInRange ==
    Returned =>
        /\ result.total_score \in 0..100
        /\ \A k \in 1..6 : SubScores(result)[k] \in 0..100

\* a call that returned with a density score, a readability score and a
\* total strictly inside the range
C1_Witness ==
    /\ Returned
    /\ result.total_score \in 1..99
    /\ result.keyword_density_score \in 1..99
    /\ result.readability_score \in 1..99

AllBlank(kws) == \A k \in 1..Len(kws) : Strip(kws[k]) = <<>>

\* C2 as claimed: evaluate raises whenever the keywords are all blank, or
\* the primary keyword - the explicit argument when one is passed, otherwise
\* the first normalized keyword - is empty after trimming.
C2_Original ==
    Ended =>
        ((\/ AllBlank(keywords)
          \/ primary_keyword # None /\ Strip(primary_keyword[1]) = <<>>)
            => pc = "raised" /\ result = NoResult)

\* C2 as amended: evaluate raises, and returns no result, whenever the
\* keywords are all blank, or an explicit primary keyword that is not the
\* empty string is empty after trimming (an explicit empty string is
\* replaced by the first normalized keyword, like no argument at all).
C2_RaisesOnBlank ==
    Ended =>
        ((\/ AllBlank(keywords)
          \/ /\ primary_keyword # None
             /\ primary_keyword[1] # <<>>
             /\ Strip(primary_keyword[1]) = <<>>)
            => pc = "raised" /\ result = NoResult)

\* a call with a usable keyword and an all-whitespace primary keyword, which
\* raised
C2_Witness ==
    /\ pc = "raised"
    /\ ~AllBlank(keywords)
    /\ primary_keyword = Some(KwBlank)
    /\ error = ErrNoPrimary

\* C3: given a non-blank keyword and a non-blank primary keyword (none
\* passed, or one that is not blank), evaluate returns a result whatever the
\* content is; for an empty body that result has keyword_density 0 and
\* density, coverage and heading scores 0.
C3_NoOtherFailure ==
    Ended =>
        /\ (/\ ~AllBlank(keywords)
            /\ (primary_keyword = None \/ Strip(primary_keyword[1]) # <<>>))
              => Returned
        /\ (Returned /\ content.body = <<>>) =>
              /\ result.keyword_density[1] = 0
              /\ result.keyword_density_score = 0
              /\ result.keyword_coverage_score = 0
              /\ result.headings_score = 0

\* a call on an empty body and an empty meta description that returned
C3_Witness ==
    /\ Returned
    /\ content.body = <<>>
    /\ content.meta_description = <<>>

\* the weighted sum of a result's sub-scores, in hundredths
Hundredths(r) ==
    20 * r.keyword_density_score + 15 * r.keyword_coverage_score
        + 10 * r.first_paragraph_score + 20 * r.headings_score
        + 20 * r.readability_score + 15 * r.meta_description_score

\* C4: total_score is an integer in [0,100] nearest to the weighted sum
\* 0.20 density + 0.15 coverage + 0.10 first-paragraph + 0.20 headings
\* + 0.20 readability + 0.15 meta of the sub-scores, also when that sum lies
\* exactly halfway between two integers (either neighbour is nearest then).
C4_TotalIsRoundedWeightedSum ==
    Returned =>
        /\ result.total_score \in 0..100
        /\ 2 * Abs(100 * result.total_score - Hundredths(result)) <= 100

\* a result whose weighted sum lies exactly halfway between two integers
C4_Witness ==
    /\ Returned
    /\ Hundredths(result) % 100 = 50

\* the six recommendations in their order, and when each is due
NoteOrder ==
    <<NoteDensity, NoteCoverage, NotePlacement, NoteHeadings,
      NoteReadability, NoteMeta>>

NoteDue(r, k) ==
    CASE k = 1 -> r.keyword_density_score < 60
      [] k = 2 -> r.keyword_coverage_score < 80
      [] k = 3 -> r.first_paragraph_score = 0
      [] k = 4 -> r.headings_score < 80
      [] k = 5 -> r.readability_score < 65
      [] k = 6 -> r.meta_description_score < 90

\* C5: notes holds exactly the recommendations whose threshold is breached,
\* each once and in the fixed order; it is empty iff none is breached.
C5_NotesMatchThresholds ==
    Returned =>
        LET due == {k \in 1..6 : NoteDue(result, k)}
            notes == result.notes
        IN  /\ Len(notes) = Cardinality(due)
            /\ \A k \in due : \E i \in 1..Len(notes) : notes[i] = NoteOrder[k]
            /\ \A i, j \in 1..Len(notes) :
                  i < j => \E a, b \in due :
                      a < b /\ notes[i] = NoteOrder[a] /\ notes[j] = NoteOrder[b]
            /\ (notes = <<>>) = (due = {})

\* a result that breaches no threshold, so that notes is empty
C5_Witness ==
    /\ Returned
    /\ result.notes = <<>>
    /\ \A k \in 1..6 : ~NoteDue(result, k)

SrReturned == sr_pc = "returned"
SrEnded == sr_pc \in {"returned", "raised"}
InBand == sr_low <= sr_value /\ sr_value <= sr_high

\* C6 as claimed: scoreRange(v, low, high) returns 100 for every v, low and
\* high with low <= v <= high.
C6_Original == SrEnded => (InBand => SrReturned /\ sr_out = 100)

\* C6 as amended: scoreRange(v, low, high) returns 100 for every v other
\* than 0 and every low, high with low <= v <= high (a value of 0 returns 0
\* also inside the band).
C6_FullCreditInBand ==
    SrEnded => ((InBand /\ sr_value # 0) => SrReturned /\ sr_out = 100)

\* a call with the value on the lower edge of a band that is not a point
C6_Witness ==
    /\ SrReturned
    /\ sr_value = sr_low
    /\ sr_low < sr_high
    /\ sr_value # 0
    /\ sr_out = 100

\* C7 as claimed: scoreRange returns an integer in [0,100] for every value
\* and every pair low, high.
C7_Original == SrEnded => SrReturned /\ sr_out \in 0..100

\* C7 as amended: scoreRange returns an integer in [0,100] for every value
\* and every pair low, high except where value < low <= 0 (there the
\* under-shoot branch divides by low: it raises ZeroDivisionError for
\* low = 0 and passes 100 for low < 0).
C7_RangeOfScoreRange ==
    SrEnded =>
        (~(sr_value < sr_low /\ sr_low <= 0) => SrReturned /\ sr_out \in 0..100)

\* an over-shoot call that lost part of the credit
C7_Witness ==
    /\ SrReturned
    /\ sr_value > sr_high
    /\ sr_high > 0
    /\ sr_out \in 1..99

\* C8: for 0 < low <= high, of two calls with the same band and values
\* v1 <= v2, the second returns at least as much when both values lie in
\* (0, low], and at most as much when both lie in [high, infinity).
C8_Monotone ==
    (SrReturned /\ sr_prev # <<>> /\ 0 < sr_low /\ sr_low <= sr_high) =>
        LET v1 == sr_prev[1].value
            out1 == sr_prev[1].out
        IN  /\ (0 < v1 /\ v1 <= sr_value /\ sr_value <= sr_low)
                  => out1 <= sr_out
            /\ (sr_high <= v1 /\ v1 <= sr_value) => out1 >= sr_out

\* two under-shoot calls with the same band, the larger value scoring
\* strictly more, and both scoring less than the band's lower edge does
C8_Witness ==
    /\ SrReturned
    /\ sr_prev # <<>>
    /\ 0 < sr_prev[1].value
    /\ sr_prev[1].value < sr_value
    /\ sr_value < sr_low
    /\ sr_low <= sr_high
    /\ 0 < sr_prev[1].out
    /\ sr_prev[1].out < sr_out
    /\ sr_out < 100

IsH1(line) == Len(line) >= 2 /\ line[1] = "#" /\ line[2] = " "
IsH2(line) == Len(line) >= 3 /\ line[1] = "#" /\ line[2] = "#" /\ line[3] = " "
H2Count(body) ==
    Cardinality({k \in 1..Len(heading_lines(body)) :
                    IsH2(heading_lines(body)[k])})
HasH1(body) ==
    \E k \in 1..Len(heading_lines(body)) : IsH1(heading_lines(body)[k])

\* C9: headings_score is min(100, 40 if some trimmed body line starts with
\* "# " plus 20 for each trimmed line starting with "## " up to three of
\* them); an H1 and three H2 lines score 100 and more H2 lines change
\* nothing; a "## " line is not an H1.
C9_HeadingsScore ==
    Returned =>
        /\ result.headings_score =
              Min2(100, (IF HasH1(content.body) THEN 40 ELSE 0)
                            + 20 * Min2(3, H2Count(content.body)))
        /\ (HasH1(content.body) /\ H2Count(content.body) >= 3)
              => result.headings_score = 100
        /\ (~HasH1(content.body) /\ H2Count(content.body) >= 3)
              => result.headings_score = 60

\* a body with an H1 line and more than three H2 lines, scoring 100
C9_Witness ==
    /\ Returned
    /\ HasH1(content.body)
    /\ H2Count(content.body) > 3
    /\ result.headings_score = 100

\* the primary keyword evaluate settles on (the explicit argument unless it
\* is missing or empty, else the first non-blank keyword), trimmed
PrimaryUsed ==
    LET firstKept == CHOOSE k \in 1..Len(keywords) :
                         /\ Strip(keywords[k]) # <<>>
                         /\ \A j \in 1..(k - 1) : Strip(keywords[j]) = <<>>
    IN  IF primary_keyword # None /\ primary_keyword[1] # <<>>
        THEN Strip(primary_keyword[1])
        ELSE Strip(keywords[firstKept])

MetaLen == Len(Strip(content.meta_description))
MetaHasPrimary ==
    Contains(Lower(content.meta_description), Lower(PrimaryUsed))

\* C10: meta_description_score is min(100, L + K): L is 70 for a trimmed
\* length in [120,160], 40 for one in [90,120) or (160,180] and 0 otherwise;
\* K is 30 when the primary keyword occurs in the meta description, case
\* ignored, and 0 otherwise.  140 characters with the keyword score 100, 100
\* characters without it 40, and the score is one of 0, 30, 40, 70, 100.
C10_MetaScore ==
    Returned =>
        LET L == IF MetaLen \in 120..160 THEN 70
                 ELSE IF MetaLen \in 90..119 \/ MetaLen \in 161..180 THEN 40
                 ELSE 0
            K == IF MetaHasPrimary THEN 30 ELSE 0
        IN  /\ result.meta_description_score = Min2(100, L + K)
            /\ result.meta_description_score \in {0, 30, 40, 70, 100}
            /\ (MetaLen = 140 /\ MetaHasPrimary)
                  => result.meta_description_score = 100
            /\ (MetaLen = 100 /\ ~MetaHasPrimary)
                  => result.meta_description_score = 40

\* a meta description of 120 characters, the lower edge of the full band,
\* holding the primary keyword and scoring 100
C10_Witness ==
    /\ Returned
    /\ MetaLen = 120
    /\ MetaHasPrimary
    /\ result.meta_description_score = 100

\* the first 100 words extracted from the lower-cased body, joined by single
\* spaces
First100Text ==
    LET words == FindWords(Lower(content.body))
    IN  Join(SubSeq(words, 1, Min2(100, Len(words))), <<" ">>)

WordCount == Len(FindWords(Lower(content.body)))

\* C11: first_paragraph_score is 100 exactly when the lower-cased primary
\* keyword is a substring of the first 100 extracted body words joined by
\* single spaces, and 0 otherwise; a keyword whose only occurrence in a
\* 500-word body is at word index 150 scores 0, at word index 10 it scores
\* 100.
C11_FirstParagraphScore ==
    Returned =>
        /\ result.first_paragraph_score =
              (IF Contains(First100Text, Lower(PrimaryUsed)) THEN 100 ELSE 0)
        /\ content.body = LongText(500, {150}, {199, 399})
              => result.first_paragraph_score = 0
        /\ content.body = LongText(500, {10}, {199, 399})
              => result.first_paragraph_score = 100

\* a 500-word body whose only keyword is past the 100th word, scoring 0 for
\* placement although the keyword is counted for the density
C11_Witness ==
    /\ Returned
    /\ WordCount = 500
    /\ result.keyword_density[1] = 1
    /\ result.first_paragraph_score = 0

\* term occurs in text as a whole word: a copy of it starts and ends on a
\* word boundary (a word character on one side only) of text
OccursAsWord(text, term) ==
    LET isWord(i) == i \in 1..Len(text) /\ text[i] \in WordChars
    IN  \E i \in 1..(Len(text) - Len(term) + 1) :
            /\ \A j \in 1..Len(term) : text[i + j - 1] = term[j]
            /\ isWord(i - 1) # isWord(i)
            /\ isWord(i + Len(term) - 1) # isWord(i + Len(term))

\* the normalized keywords: trimmed, the blank ones dropped
Normalized ==
    SelectSeq([k \in 1..Len(keywords) |-> Strip(keywords[k])],
              LAMBDA kw : kw # <<>>)

\* the normalized keywords that occur in the body as whole words, case
\* ignored, each position of the sequence counted
Hits ==
    {k \in 1..Len(Normalized) :
        OccursAsWord(Lower(content.body), Lower(Normalized[k]))}

HasNote(note) == \E i \in 1..Len(result.notes) : result.notes[i] = note

\* C12: for every body in which none of the normalized target keywords
\* occurs as a whole word, evaluate returns keyword_coverage_score 0 and the
\* notes hold the coverage recommendation.
C12_NoKeywordNoCoverage ==
    (Returned /\ Hits = {}) =>
        /\ result.keyword_coverage_score = 0
        /\ HasNote(NoteCoverage)

\* a body that holds both keywords inside longer words only, scoring 0 for
\* coverage with the recommendation given
C12_Witness ==
    /\ Returned
    /\ Len(Normalized) = 2
    /\ \A k \in 1..2 : Contains(Lower(content.body), Lower(Normalized[k]))
    /\ Hits = {}
    /\ result.keyword_coverage_score = 0
    /\ HasNote(NoteCoverage)

\* the whole-word occurrences of the primary keyword in the body, case
\* ignored (no primary keyword of the model overlaps a copy of itself)
PrimaryOccurrences ==
    LET text == Lower(content.body)
        term == Lower(PrimaryUsed)
        isWord(i) == i \in 1..Len(text) /\ text[i] \in WordChars
    IN  Cardinality({i \in 1..(Len(text) - Len(term) + 1) :
            /\ \A j \in 1..Len(term) : text[i + j - 1] = term[j]
            /\ isWord(i - 1) # isWord(i)
            /\ isWord(i + Len(term) - 1) # isWord(i + Len(term))})

\* the density lies in the band [0.007, 0.03]
DensityInBand(d) == 7 * d[2] <= 1000 * d[1] /\ 1000 * d[1] <= 30 * d[2]

\* C13: keyword_density is the number of case-insensitive whole-word
\* occurrences of the primary keyword in the body over the number of
\* extracted words, 0 when the body has no words, and is stored unclamped;
\* keyword_density_score is clampScore(scoreRange(keyword_density, 0.007,
\* 0.03)): 0 at density 0, 100 for a density in [0.007, 0.03] and strictly
\* below 100 outside that band.
C13_KeywordDensity ==
    Returned =>
        LET d == result.keyword_density
        IN  /\ d[2] > 0
            /\ IF WordCount = 0 THEN d[1] = 0
               ELSE d[1] * WordCount = PrimaryOccurrences * d[2]
            /\ result.keyword_density_score =
                  clamp_score(
                      score_range(1000 * d[1], 7 * d[2], 30 * d[2], fperr),
                      1, 0)
            /\ d[1] = 0 => result.keyword_density_score = 0
            /\ (d[1] # 0 /\ DensityInBand(d))
                  => result.keyword_density_score = 100
            /\ ~DensityInBand(d) => result.keyword_density_score < 100

\* a density of exactly 0.007, the lower edge of the band, scoring 100
C13_Witness ==
    /\ Returned
    /\ WordCount = 1000
    /\ PrimaryOccurrences = 7
    /\ result.keyword_density = <<7, 1000>>
    /\ result.keyword_density_score = 100

\* what a call that ended gave its caller
Outcome(d) == [kind |-> d.kind, result |-> d.result, error |-> d.error]

\* C14: two evaluate calls with identical content, keywords and primary
\* keyword return identical results (total_score, keyword_density, the six
\* sub-scores and the notes sequence) or both raise EvaluationError,
\* whatever other calls happened before or between them.
C14_Determinism ==
    \A a, b \in 1..Len(done) :
        args[done[a].input] = args[done[b].input]
            => Outcome(done[a]) = Outcome(done[b])

\* the same arguments evaluated twice, returning notes both times, with a
\* call on other arguments ended between the two
C14_Witness ==
    /\ Len(done) >= 3
    /\ done[1].input = done[3].input
    /\ done[2].input # done[1].input
    /\ done[1].kind = "returned"
    /\ done[2].kind = "returned"
    /\ done[1].result.notes # <<>>
    /\ done[1].result.notes # done[2].result.notes

\* what evaluate gives for the arguments ThreadArgs[i] when it runs alone,
\* the floats rounding as err says
AloneWith(i, err) ==
    LET a == ThreadArgs[i]
        raised == evaluation_error(a.keywords, a.primary_keyword)
    IN  IF raised # ""
        THEN [kind |-> "raised", result |-> NoResult, error |-> raised]
        ELSE [kind |-> "returned",
              result |-> evaluation_of(a.content, a.keywords,
                                       a.primary_keyword, err),
              error |-> ""]

\* AloneWith for every rounding of the floats
AloneTable ==
    [err \in {-1, 0, 1} |-> [i \in 1..Len(ThreadArgs) |-> AloneWith(i, err)]]

Alone(i) == AloneTable[fperr][i]

CoverageIsRounded ==
    LET N == Len(Normalized)
        score == result.keyword_coverage_score
    IN  /\ N > 0
        /\ score \in 0..100
        /\ 2 * Abs(N * score - 100 * Cardinality(Hits)) <= N

\* without a primary keyword argument the first normalized keyword is the
\* one counted for the density: the normalization keeps the order
FirstKeptIsPrimary ==
    (primary_keyword = None /\ WordCount > 0) =>
        result.keyword_density[1] * WordCount
            = PrimaryOccurrences * result.keyword_density[2]

\* C17 as claimed: normalization trims each keyword, drops the blank ones,
\* keeps the order and the duplicates; keyword_coverage_score is
\* clampScore(100 * hits / N), duplicates counted in hits and in N; and the
\* score is 100 iff every normalized keyword occurs in the body.
C17_Original ==
    Returned =>
        /\ CoverageIsRounded
        /\ FirstKeptIsPrimary
        /\ (result.keyword_coverage_score = 100)
              = (Cardinality(Hits) = Len(Normalized))

\* C17 as amended: as claimed, except that the score is 100 iff every
\* normalized keyword occurs in the body only for fewer than 200 normalized
\* keywords; from 200 on, 100 * hits / N rounds to 100 with a keyword
\* missing.  Every keyword occurring gives 100 for any N.
C17_Coverage ==
    Returned =>
        /\ CoverageIsRounded
        /\ FirstKeptIsPrimary
        /\ Cardinality(Hits) = Len(Normalized)
              => result.keyword_coverage_score = 100
        /\ (Len(Normalized) < 200 /\ result.keyword_coverage_score = 100)
              => Cardinality(Hits) = Len(Normalized)

\* a keyword given twice and found, with another one missing: two hits of
\* three, scoring 67
C17_Witness ==
    /\ Returned
    /\ Len(Normalized) = 3
    /\ Normalized[1] = Normalized[2]
    /\ Cardinality(Hits) = 2
    /\ result.keyword_coverage_score = 67

\* ---- the pipeline runner ----

\* the run stopped on an exception of the step p_index
Failed == p_pc \in {"failed", "exited"}

\* an evaluate_content step raised on SEOEvaluationError
EvaluationFailed ==
    p_error = [type |-> "RuntimeError", cause |-> "SEOEvaluationError"]

\* every part of claim C16 but the one about the state's entries: the step
\* was attempted once, no later step ran, the completion message was not
\* printed, and main exits with status 1
EvaluationFailureIsFatal ==
    /\ Failed
    /\ CurrentStep.operation = "evaluate_content"
    /\ p_attempts[p_index] = 1
    /\ \A k \in 1..Len(p_steps) : k > p_index => p_attempts[k] = 0
    /\ ~p_printed
    /\ p_exit # 0
    /\ p_pc = "exited" => p_exit = 1

\* C16 as stated: when evaluate_seo_content raises SEOEvaluationError inside
\* the pipeline the step is attempted once, the state's evaluation and
\* evaluation_json_path entries are unset, no later step runs, no completion
\* message is printed and the exit status is 1.
C16_Original ==
    EvaluationFailed =>
        /\ EvaluationFailureIsFatal
        /\ p_data.evaluation = None
        /\ p_data.evaluation_json_path = None

\* C16: when evaluate_seo_content raises SEOEvaluationError inside the
\* pipeline the step is attempted once and leaves the state as it found it
\* (evaluation and evaluation_json_path keep what an earlier evaluate_content
\* step of the run stored, and are unset otherwise; no report is written),
\* no later step runs, no completion message is printed and the exit status
\* is 1.
C16_EvaluationErrorFatal ==
    EvaluationFailed =>
        /\ EvaluationFailureIsFatal
        /\ p_data = p_prev
        /\ p_data.evaluation = None =>
               \A k \in 1..(p_index - 1) :
                   p_steps[k].operation # "evaluate_content"
        /\ PathReport \in p_files <=> p_data.evaluation_json_path # None

\* main has exited with status 1 on an SEOEvaluationError of a step that has
\* a step after it, with nothing evaluated
C16_Witness ==
    /\ EvaluationFailed
    /\ p_pc = "exited"
    /\ p_exit = 1
    /\ p_index < Len(p_steps)
    /\ p_data.evaluation = None
    /\ p_data.content # None

IsSet(key) == p_data[key] # None

\* the dependencies between the entries of the state
StateIsCoherent ==
    /\ IsSet("evaluation") => IsSet("content")
    /\ IsSet("content") => IsSet("config")
    /\ IsSet("csv_path") => IsSet("content")
    /\ IsSet("content_json_path") => IsSet("content")
    /\ IsSet("evaluation_json_path") => IsSet("content")
    /\ IsSet("keywords") => IsSet("config")

\* no step removes an entry
NothingRemoved == \A key \in DOMAIN p_data : IsSet(key) => p_data'[key] # None

\* C18: at every point of a pipeline run an evaluation implies content,
\* content implies a configuration, each of csv_path, content_json_path and
\* evaluation_json_path implies content, keywords imply a configuration, and
\* no step removes an entry once it is set.
C18_StateInvariant == [](StateIsCoherent) /\ [][NothingRemoved]_vars

\* a run that loaded, generated, evaluated and exported has every entry the
\* four steps store
C18_Witness ==
    /\ p_pc = "returned"
    /\ IsSet("config") /\ IsSet("content") /\ IsSet("evaluation")
    /\ IsSet("csv_path") /\ IsSet("content_json_path")
    /\ IsSet("evaluation_json_path")

\* the entry a successful step of the operation stores
EntryOf(operation) ==
    CASE operation = "load_config" -> "config"
      [] operation = "extract_keywords" -> "keywords"
      [] operation = "generate_content" -> "content"
      [] operation = "evaluate_content" -> "evaluation"
      [] operation = "export_csv" -> "csv_path"

\* the steps before k, and only they, have run, each once and with success
RanInOrderUpTo(k) ==
    /\ \A j \in 1..Len(p_steps) :
           /\ j < k => /\ p_attempts[j] = 1
                       /\ p_steps[j].operation \in STEP_HANDLERS
                       /\ IsSet(EntryOf(p_steps[j].operation))
           /\ j > k => p_attempts[j] = 0
    /\ k <= Len(p_steps) => p_attempts[k] \in {0, 1}

\* the step p_index has no operation the runner supports: its handler is
\* not called and the run fails
Unsupported == p_steps[p_index].operation \notin STEP_HANDLERS

\* C19: run_pipeline executes the steps strictly in order, starting none
\* before the previous one finished; the first step that lacks an operation,
\* names an unsupported one or raises ends the run, no later step executes,
\* the effects of the earlier steps on the state are kept, and the
\* completion message is printed if and only if every step succeeded.
C19_StepsInOrder ==
    /\ p_index \in 1..(Len(p_steps) + 1)
    /\ RanInOrderUpTo(p_index)
    /\ p_pc = "handler" => p_attempts[p_index] = 1
    /\ Failed <=> p_error # NoError
    /\ Failed =>
          /\ p_index <= Len(p_steps)
          /\ p_attempts[p_index] = (IF Unsupported THEN 0 ELSE 1)
          /\ ~p_printed
          /\ \A key \in DOMAIN p_data : p_prev[key] # None => IsSet(key)
    /\ (p_index <= Len(p_steps) /\ Unsupported) => p_pc \in {"loop", "failed", "exited"}
    /\ p_printed <=> p_pc \in {"completed", "returned"}
    /\ p_printed => p_index = Len(p_steps) + 1
    /\ p_pc \in {"exited", "returned"} =>
          /\ p_printed <=> p_index = Len(p_steps) + 1
          /\ p_exit = (IF p_printed THEN 0 ELSE 1)

\* the third of four steps raised after two steps that succeeded: their
\* entries are in the state and the fourth step was never called
C19_Witness ==
    /\ p_pc = "exited"
    /\ Len(p_steps) = 4
    /\ p_index = 3
    /\ p_attempts = <<1, 1, 1, 0>>
    /\ p_steps[1].operation = "load_config"
    /\ p_steps[2].operation = "generate_content"
    /\ IsSet("config") /\ IsSet("content")
    /\ ~p_printed

\* the state is still the one the last handler called left: no handler has
\* been called for the step p_index
NothingCalledSince == p_index > Len(p_steps) \/ p_attempts[p_index] = 0

\* the step whose handler was called last, 0 when none was
LastCalled == IF NothingCalledSince THEN p_index - 1 ELSE p_index

ConfigKeywords(data) == data.config[1].seo_preferences.keywords

\* neither the state nor the configuration has a keyword
BothEmpty(data) ==
    /\ data.keywords = None \/ data.keywords[1] = <<>>
    /\ ConfigKeywords(data) = <<>>

\* the handler of the operation gets as far as choosing its keywords
NeedsKeywords(operation, data) ==
    /\ operation \in {"generate_content", "evaluate_content", "export_csv"}
    /\ data.config # None
    /\ operation # "generate_content" => data.content # None

\* extraction raised KeywordExtractionError in a step with the fallback: the
\* step succeeded and the keywords are the configuration's list
FallbackSucceeds ==
    \A k \in p_fellback :
        /\ p_steps[k].operation = "extract_keywords"
        /\ p_steps[k].fallback_to_config_keywords
        /\ k < p_index
        /\ (k = p_index - 1 /\ NothingCalledSince) =>
               p_data.keywords = Some(ConfigKeywords(p_data))

\* extraction raised KeywordExtractionError in a step without the fallback:
\* RuntimeError, and the keywords are left as they were
NoFallbackFails ==
    p_error.cause = "KeywordExtractionError" =>
        /\ Failed
        /\ p_error.type = "RuntimeError"
        /\ CurrentStep.operation = "extract_keywords"
        /\ ~CurrentStep.fallback_to_config_keywords
        /\ p_index \notin p_fellback
        /\ p_data = p_prev

\* a description that is blank makes extract_seo_keywords raise
\* KeywordExtractionError whatever the model answers
BlankDescriptionFallsBack ==
    (/\ LastCalled >= 1
     /\ p_pc # "handler"
     /\ p_steps[LastCalled].operation = "extract_keywords"
     /\ p_prev.config # None
     /\ Strip(p_prev.config[1].website_description) = <<>>
     /\ p_client) =>
        IF p_steps[LastCalled].fallback_to_config_keywords
        THEN LastCalled \in p_fellback
        ELSE p_error.cause = "KeywordExtractionError"

\* the keywords a later step passes on are the state's when that list is
\* non-empty and the configuration's otherwise
LaterStepsPreferState ==
    p_used # None =>
        /\ NeedsKeywords(p_steps[LastCalled].operation, p_prev)
        /\ p_used[1] # <<>>
        /\ p_used[1] = (IF p_prev.keywords # None /\ p_prev.keywords[1] # <<>>
                        THEN p_prev.keywords[1]
                        ELSE ConfigKeywords(p_prev))

\* with both lists empty the step fails with RuntimeError, passes nothing on
\* and leaves the state and the files as they were
BothEmptyFails ==
    (/\ LastCalled >= 1
     /\ p_pc # "handler"
     /\ p_attempts[LastCalled] = 1
     /\ NeedsKeywords(p_steps[LastCalled].operation, p_prev)
     /\ BothEmpty(p_prev)) =>
        /\ Failed
        /\ p_error = [type |-> "RuntimeError", cause |-> "no keywords"]
        /\ LastCalled = p_index
        /\ p_used = None
        /\ p_data = p_prev

\* C20: when extract_seo_keywords raises KeywordExtractionError the
\* extract_keywords step succeeds with the configuration's list as keywords
\* if fallback_to_config_keywords is true and fails with RuntimeError,
\* keywords unchanged, if it is false; later steps use the state's keywords
\* when present and non-empty, else the configuration's, and fail with
\* RuntimeError without output when both are empty.
C20_KeywordFallback ==
    /\ FallbackSucceeds
    /\ NoFallbackFails
    /\ BlankDescriptionFallsBack
    /\ LaterStepsPreferState
    /\ BothEmptyFails

\* a run fell back to the configuration's list, then extracted keywords by
\* the model, and a later step passed on the extracted ones although the
\* configuration has its own
C20_Witness ==
    /\ p_fellback # {}
    /\ p_used = Some(<<KwExtracted>>)
    /\ ConfigKeywords(p_prev) = <<KwSeo>>
    /\ p_prev.keywords = Some(<<KwExtracted>>)

\* a step failed because neither list had a keyword
C20_WitnessEmpty ==
    /\ p_error = [type |-> "RuntimeError", cause |-> "no keywords"]
    /\ BothEmpty(p_prev)
    /\ p_prev.keywords = Some(<<>>)
    /\ p_fellback # {}

====
